---- MODULE Spec2Model ----
(***************************************************************************)
(* Model of the asynchronous rate-limited batch client of src/main.go:     *)
(* NewClient, Client.Process (the unbuffered hand-off), Client.Run (the    *)
(* select loop) and the paced worker goroutine Run spawns per batch.       *)
(*                                                                         *)
(* Time is discrete.  One unit is the action Tick; a period is c.p units.  *)
(* A worker's own statements take no time (Tick waits while a worker has a *)
(* statement to run), so every delay in the model is either a Process call *)
(* in flight or a worker blocked on its ticker.  A time.Ticker delivers a  *)
(* tick every c.p units from its creation into a channel of capacity one   *)
(* and drops the tick when the channel is still full.                      *)
(*                                                                         *)
(* The uint64 arithmetic of the loop cannot wrap: i > 0 implies            *)
(* c.n <= i < len(batch) <= MaxInt64, so i + c.n < 2^64.                   *)
(***************************************************************************)
EXTENDS Naturals, Sequences, FiniteSets

\* Bounds of the model.
NumBatches == 2     \* Process(batch) calls made by submitters
MaxLen == 3         \* longest submitted batch
MaxCap == 2         \* largest capacity GetLimits reports
MaxPeriod == 2      \* longest period GetLimits reports, in time units
MaxZeroCalls == 2   \* Process calls followed for a worker whose capacity is 0 (it never stops)

VARIABLES
    n,          \* c.n: capacity cached by NewClient
    p,          \* c.p: period cached by NewClient
    ctxDone,    \* the context passed to Run has been cancelled
    runPc,      \* Run: "init" | "select" | "spawn" | "returned"
    runBatch,   \* the batch id Run holds between the receive and the go statement (0: none)
    call,       \* call[b]: Process(batch) call b: "none" | "blocked" | "returned"
    batch,      \* batch[b]: the Batch passed by call b
    workers,    \* the worker goroutines, in spawn order
    crashed,    \* a goroutine panicked: the program is gone
    req,        \* req[b]: the body of the request whose handler made call b
    resp,       \* resp[b]: the status and body written to that request's ResponseWriter (status 0: nothing yet)
    sync        \* the synchronous dispatcher: one ProcessItems call and its caller's response

vars == <<n, p, ctxDone, runPc, runBatch, call, batch, workers, crashed, req, resp, sync>>

BatchIds == 1..NumBatches

Min(a, b) == IF a < b THEN a ELSE b

\* A Batch of L items.  Item is struct{}: the model tells items apart by position.
Items(L) == [k \in 1..L |-> k]

Alive == ~crashed

(***************************************************************************)
(* The worker's loop arithmetic (src/main.go:63-69).                       *)
(***************************************************************************)
\* Mutant: the loop bound is inclusive (i <= len(batch)).
LoopCondInclusive(i, L) == i <= L

LoopCond(i, L) == i < L

SliceEnd(i, L) == IF i + n > L THEN L ELSE i + n

NextIndex(i) == i + n

\* batch[i:end]
SubBatch(b, lo, hi) == SubSeq(b, lo + 1, hi)

(***************************************************************************)
(* The submission boundary: request bodies and responses.                  *)
(***************************************************************************)
StatusOK == 200
StatusBadRequest == 400

\* A request body: a JSON array of len integers, or text that does not decode.
Bodies ==
    {[present |-> TRUE, ok |-> TRUE, len |-> L] : L \in 0..MaxLen}
        \cup {[present |-> TRUE, ok |-> FALSE, len |-> 0]}

\* No request yet.
NoRequest == [present |-> FALSE, ok |-> FALSE, len |-> 0]

\* The error json.Decoder reports for the body "invalid".
DecodeErrText == "invalid character 'i' looking for beginning of value"

\* The text handleRequest passes to http.Error.
ConvertErrText == "convert request to batch error"

\* convertRequestToBatch: one Item per decoded element, or (nil, err).
convertRequestToBatch(body) ==
    IF body.ok THEN [batch |-> Items(body.len), err |-> "nil"]
               ELSE [batch |-> << >>, err |-> DecodeErrText]

NoResponse == [status |-> 0, body |-> ""]

\* w.WriteHeader(code): the first status written stands, a later one is dropped.
WriteHeader(r, code) == IF r.status = 0 THEN [r EXCEPT !.status = code] ELSE r

\* http.Error(w, text, code): status and body (the trailing newline is left out).
HttpError(r, text, code) ==
    IF r.status = 0 THEN [status |-> code, body |-> text] ELSE r

\* The synchronous dispatcher before any call.
SyncIdle ==
    [pc |-> "idle", L |-> 0, bs |-> 0, i |-> 0, sent |-> << >>, elapsed |-> 0,
     result |-> "none", resp |-> NoResponse]

(***************************************************************************)
(* NewClient: GetLimits is read once; the queue is unbuffered and empty.   *)
(***************************************************************************)
Init ==
    /\ n \in 0..MaxCap
    /\ p \in 0..MaxPeriod
    /\ ctxDone = FALSE
    /\ runPc = "init"
    /\ runBatch = 0
    /\ call = [b \in BatchIds |-> "none"]
    /\ batch = [b \in BatchIds |-> << >>]
    /\ workers = << >>
    /\ crashed = FALSE
    /\ req = [b \in BatchIds |-> NoRequest]
    /\ resp = [b \in BatchIds |-> NoResponse]
    /\ sync = SyncIdle

(***************************************************************************)
(* Submitters.  Process(batch) is `c.queue <- batch`: the caller blocks    *)
(* until Run receives.  Calls are numbered in the order they are made.     *)
(***************************************************************************)
\* Mutant: the queue has a buffer (make(chan Batch, 1)), so the send returns
\* before anyone has received.
ProcessCallBuffered(b, L) ==
    /\ Alive
    /\ call[b] = "none"
    /\ b > 1 => call[b - 1] # "none"
    /\ call' = [call EXCEPT ![b] = "returned"]
    /\ batch' = [batch EXCEPT ![b] = Items(L)]
    /\ UNCHANGED <<n, p, ctxDone, runPc, runBatch, workers, crashed, sync>>

\* Mutant: a dispatcher whose Run has returned turns the call away at once.
ProcessCallRejects(b, L) ==
    /\ Alive
    /\ call[b] = "none"
    /\ b > 1 => call[b - 1] # "none"
    /\ call' = [call EXCEPT ![b] = IF runPc = "returned" THEN "returned" ELSE "blocked"]
    /\ batch' = [batch EXCEPT ![b] = Items(L)]
    /\ UNCHANGED <<n, p, ctxDone, runPc, runBatch, workers, crashed, sync>>

ProcessCall(b, L) ==
    /\ Alive
    /\ call[b] = "none"
    /\ b > 1 => call[b - 1] # "none"
    /\ call' = [call EXCEPT ![b] = "blocked"]
    /\ batch' = [batch EXCEPT ![b] = Items(L)]
    /\ UNCHANGED <<n, p, ctxDone, runPc, runBatch, workers, crashed, sync>>

\* handleRequest: decode the body, answer 400 on a decode error, and then (there
\* is no return after http.Error) pass the batch, nil after an error, to
\* client.Process.  The WriteHeader(200) that follows the call is part of RunRecv.
HandleRequest(b, body) ==
    LET r == convertRequestToBatch(body) IN
    /\ ProcessCall(b, Len(r.batch))
    /\ req' = [req EXCEPT ![b] = body]
    /\ resp' = [resp EXCEPT ![b] =
                   IF r.err # "nil" THEN HttpError(@, ConvertErrText, StatusBadRequest)
                                    ELSE @]

\* The owner of the context cancels it.
Cancel ==
    /\ Alive
    /\ ~ctxDone
    /\ ctxDone' = TRUE
    /\ UNCHANGED <<n, p, runPc, runBatch, call, batch, workers, crashed, req, resp, sync>>

(***************************************************************************)
(* Run.                                                                    *)
(***************************************************************************)
RunStart ==
    /\ Alive
    /\ runPc = "init"
    /\ runPc' = "select"
    /\ UNCHANGED <<n, p, ctxDone, runBatch, call, batch, workers, crashed, req, resp, sync>>

\* case <-ctx.Done(): return
RunDone ==
    /\ Alive
    /\ runPc = "select"
    /\ ctxDone
    /\ runPc' = "returned"
    /\ UNCHANGED <<n, p, ctxDone, runBatch, call, batch, workers, crashed, req, resp, sync>>

\* case batch := <-c.queue: the rendezvous with a blocked sender, whose
\* handler goes on to w.WriteHeader(http.StatusOK).  A select
\* with several ready cases takes any of them, so a cancelled context does
\* not disable this case.  Senders blocked on a channel are served in the
\* order they arrived, which is the order the calls are numbered in.
RunRecv(b) ==
    /\ Alive
    /\ runPc = "select"
    /\ call[b] = "blocked"
    /\ \A c \in 1..(b - 1) : call[c] # "blocked"
    /\ call' = [call EXCEPT ![b] = "returned"]
    /\ runPc' = "spawn"
    /\ runBatch' = b
    /\ resp' = [resp EXCEPT ![b] = WriteHeader(@, StatusOK)]
    /\ UNCHANGED <<n, p, ctxDone, batch, workers, crashed, req, sync>>

\* A worker goroutine as Run starts it.
\*   batch    the id of the batch the closure captured
\*   pc       "ticker" | "loop" | "inProcess" | "waitTick" | "done" | "panicked"
\*   i        the loop variable
\*   sent     the sub-batches batch[lo:hi] passed to c.service.Process so far
\*   tickIn   time units until the ticker's next tick; tickBuf: a tick waits in ticker.C
\*   ticks    receives from ticker.C so far
\*   inFlight Process calls of this worker that have not returned
\*   callCtx  the call in flight was handed an already cancelled ctx
\*   lastRes  what the latest returned Process call reported: "none" | "ok" | "err"
\*   since    time since this worker's latest Process call started, capped at p
NewWorker(b) ==
    [batch |-> b, pc |-> "ticker", i |-> 0, sent |-> << >>,
     tickIn |-> 0, tickBuf |-> FALSE, ticks |-> 0, inFlight |-> 0,
     callCtx |-> FALSE, lastRes |-> "none", since |-> p]

\* Mutant: Run looks at the context once more before the go statement and
\* returns, with the batch it has just received, when it is cancelled.
RunSpawnUnlessCancelled ==
    /\ Alive
    /\ runPc = "spawn"
    /\ IF ctxDone
       THEN /\ runPc' = "returned"
            /\ UNCHANGED workers
       ELSE /\ workers' = Append(workers, NewWorker(runBatch))
            /\ runPc' = "select"
    /\ runBatch' = 0
    /\ UNCHANGED <<n, p, ctxDone, call, batch, crashed, req, resp, sync>>

\* Mutant: the worker body is called without `go`, so Run is busy with it and
\* reaches its next statement only when no worker is running.
RunSpawnInline ==
    /\ Alive
    /\ runPc = "spawn"
    /\ \A w \in 1..Len(workers) : workers[w].pc = "done"
    /\ workers' = Append(workers, NewWorker(runBatch))
    /\ runPc' = "select"
    /\ runBatch' = 0
    /\ UNCHANGED <<n, p, ctxDone, call, batch, crashed, req, resp, sync>>

\* go func() {...}(): Run does not wait for the goroutine.
RunSpawn ==
    /\ Alive
    /\ runPc = "spawn"
    /\ workers' = Append(workers, NewWorker(runBatch))
    /\ runPc' = "select"
    /\ runBatch' = 0
    /\ UNCHANGED <<n, p, ctxDone, call, batch, crashed, req, resp, sync>>

(***************************************************************************)
(* The worker goroutine.                                                   *)
(***************************************************************************)
WorkerIds == 1..Len(workers)

BatchOf(w) == batch[workers[w].batch]

\* Mutant: the worker waits for a tick before its first sub-batch
\* (<-ticker.C at the top of the loop body).
WorkerNewTickerWaitFirst(w) ==
    /\ Alive
    /\ workers[w].pc = "ticker"
    /\ IF p = 0
       THEN /\ workers' = [workers EXCEPT ![w].pc = "panicked"]
            /\ crashed' = TRUE
       ELSE /\ workers' = [workers EXCEPT ![w].pc = "waitTick", ![w].tickIn = p]
            /\ UNCHANGED crashed
    /\ UNCHANGED <<n, p, ctxDone, runPc, runBatch, call, batch, req, resp, sync>>

\* ticker := time.NewTicker(c.p): panics for a non-positive interval.
WorkerNewTicker(w) ==
    /\ Alive
    /\ workers[w].pc = "ticker"
    /\ IF p = 0
       THEN /\ workers' = [workers EXCEPT ![w].pc = "panicked"]
            /\ crashed' = TRUE
       ELSE /\ workers' = [workers EXCEPT ![w].pc = "loop", ![w].tickIn = p]
            /\ UNCHANGED crashed
    /\ UNCHANGED <<n, p, ctxDone, runPc, runBatch, call, batch, req, resp, sync>>

\* With capacity 0 the loop never ends: the model follows MaxZeroCalls calls of it.
CanCall(w) == n = 0 => Len(workers[w].sent) < MaxZeroCalls

\* The loop head and the body up to the call of c.service.Process(ctx, subBatch);
\* on loop exit the deferred ticker.Stop() runs.
WorkerLoop(w) ==
    /\ Alive
    /\ workers[w].pc = "loop"
    /\ CanCall(w)
    /\ LET wk == workers[w]
           L  == Len(BatchOf(w))
       IN IF LoopCond(wk.i, L)
          THEN /\ workers' = [workers EXCEPT
                      ![w].pc = "inProcess",
                      ![w].sent = Append(@, [lo |-> wk.i, hi |-> SliceEnd(wk.i, L)]),
                      ![w].inFlight = @ + 1,
                      ![w].callCtx = ctxDone,
                      ![w].since = 0]
          ELSE /\ workers' = [workers EXCEPT
                      ![w].pc = "done", ![w].tickIn = 0, ![w].tickBuf = FALSE]
    /\ UNCHANGED <<n, p, ctxDone, runPc, runBatch, call, batch, crashed, req, resp, sync>>

\* Mutant: an error ends the worker (`return` after the log line).
WorkerProcessReturnAbort(w) ==
    /\ Alive
    /\ workers[w].pc = "inProcess"
    /\ \E r \in {"ok", "err"} :
          workers' = [workers EXCEPT
              ![w].pc = IF r = "err" THEN "done" ELSE "waitTick",
              ![w].tickIn = IF r = "err" THEN 0 ELSE @,
              ![w].tickBuf = IF r = "err" THEN FALSE ELSE @,
              ![w].inFlight = @ - 1,
              ![w].callCtx = FALSE, ![w].lastRes = r]
    /\ UNCHANGED <<n, p, ctxDone, runPc, runBatch, call, batch, crashed, req, resp, sync>>

\* c.service.Process returns, with or without an error; an error is logged.
WorkerProcessReturn(w) ==
    /\ Alive
    /\ workers[w].pc = "inProcess"
    /\ \E r \in {"ok", "err"} :
          workers' = [workers EXCEPT ![w].pc = "waitTick", ![w].inFlight = @ - 1,
                                      ![w].callCtx = FALSE, ![w].lastRes = r]
    /\ UNCHANGED <<n, p, ctxDone, runPc, runBatch, call, batch, crashed, req, resp, sync>>

\* Mutant: the worker takes its tick without waiting for Process to return
\* (the call was started with `go`).
WorkerRecvTickNoWait(w) ==
    /\ Alive
    /\ workers[w].pc \in {"inProcess", "waitTick"}
    /\ workers[w].tickBuf
    /\ workers' = [workers EXCEPT
          ![w].pc = "loop",
          ![w].tickBuf = FALSE,
          ![w].ticks = @ + 1,
          ![w].i = NextIndex(@)]
    /\ UNCHANGED <<n, p, ctxDone, runPc, runBatch, call, batch, crashed, req, resp, sync>>

\* Mutant: the worker also watches ctx.Done() while it waits and stops there.
WorkerRecvTickOrCancel(w) ==
    /\ Alive
    /\ workers[w].pc = "waitTick"
    /\ IF ctxDone
       THEN workers' = [workers EXCEPT
                ![w].pc = "done", ![w].tickIn = 0, ![w].tickBuf = FALSE]
       ELSE /\ workers[w].tickBuf
            /\ workers' = [workers EXCEPT
                  ![w].pc = "loop",
                  ![w].tickBuf = FALSE,
                  ![w].ticks = @ + 1,
                  ![w].i = NextIndex(@)]
    /\ UNCHANGED <<n, p, ctxDone, runPc, runBatch, call, batch, crashed, req, resp, sync>>

\* <-ticker.C, then i += c.n
WorkerRecvTick(w) ==
    /\ Alive
    /\ workers[w].pc = "waitTick"
    /\ workers[w].tickBuf
    /\ workers' = [workers EXCEPT
          ![w].pc = "loop",
          ![w].tickBuf = FALSE,
          ![w].ticks = @ + 1,
          ![w].i = NextIndex(@)]
    /\ UNCHANGED <<n, p, ctxDone, runPc, runBatch, call, batch, crashed, req, resp, sync>>

(***************************************************************************)
(* Time.                                                                   *)
(***************************************************************************)
\* A worker with a statement to run now.
Urgent(w) ==
    \/ workers[w].pc = "ticker"
    \/ workers[w].pc = "loop" /\ CanCall(w)
    \/ workers[w].pc = "waitTick" /\ workers[w].tickBuf

\* One time unit for a worker whose ticker runs.
Advance(wk) ==
    IF wk.pc \in {"inProcess", "waitTick"}
    THEN [wk EXCEPT !.tickIn = IF @ = 1 THEN p ELSE @ - 1,
                    !.tickBuf = @ \/ wk.tickIn = 1,
                    !.since = Min(p, @ + 1)]
    ELSE [wk EXCEPT !.since = Min(p, @ + 1)]

Tick ==
    /\ Alive
    /\ \A w \in WorkerIds : ~Urgent(w)
    /\ workers' = [w \in WorkerIds |-> Advance(workers[w])]
    /\ UNCHANGED <<n, p, ctxDone, runPc, runBatch, call, batch, crashed, req, resp, sync>>

\* Any step of the w-th worker goroutine, once Run has started it.
WorkerStep(w) ==
    /\ w \in WorkerIds
    /\ \/ WorkerNewTicker(w)
       \/ WorkerLoop(w)
       \/ WorkerProcessReturn(w)
       \/ WorkerRecvTick(w)

Next ==
    \/ \E b \in BatchIds, body \in Bodies : HandleRequest(b, body)
    \/ Cancel
    \/ RunStart
    \/ RunDone
    \/ \E b \in BatchIds : RunRecv(b)
    \/ RunSpawn
    \/ \E w \in WorkerIds : WorkerNewTicker(w)
    \/ \E w \in WorkerIds : WorkerLoop(w)
    \/ \E w \in WorkerIds : WorkerProcessReturn(w)
    \/ \E w \in WorkerIds : WorkerRecvTick(w)
    \/ Tick

Spec == Init /\ [][Next]_vars

\* The scheduler runs every goroutine that can run, every Process call
\* returns, and time passes.  Nothing is assumed of the submitters, of the
\* owner of the context, or of Run.
FairSpec ==
    /\ Spec
    /\ WF_vars(Tick)
    /\ \A w \in BatchIds : WF_vars(WorkerStep(w))

(***************************************************************************)
(* The synchronous dispatcher and its submission boundary: ProcessItems,    *)
(* ErrBlocked and ProcessItemsHandler, which src/main_test.go calls and     *)
(* src/ does not hold, after spec.md sections 4.1, 6 and 7.  One request    *)
(* is followed from its arrival to its answer; time is counted from t0 in   *)
(* the units of the period and no further than the period.                  *)
(***************************************************************************)
StatusTooManyRequests == 429
StatusInternalServerError == 500
ErrBlockedText == "blocked"
ProcessorErrText == "processor failure"
FaultText == "zero batch size"

async == <<ctxDone, runPc, runBatch, call, batch, workers, crashed, req, resp>>

\* Mutant: the slices are as long as the item list, whatever the capacity.
BatchSizeIgnoresCapacity(L) == L

\* Step 1: batchSize = min(capacity, len(items)).
BatchSize(L) == Min(n, L)

\* Mutant: the budget counts as spent only after the period.
OverloadedStrict(e) == e > p

\* Step 4: elapsed >= period.
Overloaded(e) == e >= p

\* Mutant: every error is answered as an overload.
RespondAnyErrorAsOverload(r, result) ==
    IF result = "nil" THEN WriteHeader(r, StatusOK)
    ELSE HttpError(r, ErrBlockedText, StatusTooManyRequests)

\* The answer to what ProcessItems returned.
Respond(r, result) ==
    CASE result = "nil"     -> WriteHeader(r, StatusOK)
      [] result = "blocked" -> HttpError(r, ErrBlockedText, StatusTooManyRequests)
      [] result = "failed"  -> HttpError(r, ProcessorErrText, StatusInternalServerError)
      [] OTHER              -> HttpError(r, FaultText, StatusInternalServerError)

\* ProcessItemsHandler, up to its call of ProcessItems: a body that does not
\* decode is answered 400 with the decode error and the handler returns.
ProcessItemsHandler(body) ==
    /\ sync.pc = "idle"
    /\ LET r == convertRequestToBatch(body) IN
       sync' = IF r.err # "nil"
               THEN [sync EXCEPT !.pc = "answered",
                                 !.resp = HttpError(@, r.err, StatusBadRequest)]
               ELSE [sync EXCEPT !.pc = "call", !.L = Len(r.batch)]
    /\ UNCHANGED <<n, p, async>>

\* ProcessItems, steps 1 and 2 and the zero batch size: nothing to send is a
\* success; items with capacity 0 are a fault or an immediate overload.
ProcessItemsEnter ==
    /\ sync.pc = "call"
    /\ LET bs == BatchSize(sync.L) IN
       IF bs > 0
       THEN sync' = [sync EXCEPT !.pc = "check", !.bs = bs, !.elapsed = 0]
       ELSE \E r \in (IF sync.L = 0 THEN {"nil"} ELSE {"fault", "blocked"}) :
               sync' = [sync EXCEPT !.pc = "returned", !.result = r]
    /\ UNCHANGED <<n, p, async>>

\* Steps 3, 4 and 6: with no slice left, success; with the budget spent,
\* overload; otherwise the next slice goes to the processor.
ProcessItemsCheck ==
    /\ sync.pc = "check"
    /\ sync' =
          IF ~(sync.i < sync.L)
          THEN [sync EXCEPT !.pc = "returned", !.result = "nil"]
          ELSE IF Overloaded(sync.elapsed)
          THEN [sync EXCEPT !.pc = "returned", !.result = "blocked"]
          ELSE [sync EXCEPT !.pc = "inProcess",
                            !.sent = Append(@, [lo |-> sync.i,
                                                hi |-> Min(sync.i + sync.bs, sync.L)])]
    /\ UNCHANGED <<n, p, async>>

\* Step 5: the processor's failure is returned as it is and ends the call.
ProcessItemsProcessReturn ==
    /\ sync.pc = "inProcess"
    /\ \E r \in {"ok", "err"} :
          sync' = IF r = "ok"
                  THEN [sync EXCEPT !.pc = "check", !.i = @ + sync.bs]
                  ELSE [sync EXCEPT !.pc = "returned", !.result = "failed"]
    /\ UNCHANGED <<n, p, async>>

\* Time passes during the call.
SyncTick ==
    /\ sync.pc \in {"check", "inProcess"}
    /\ sync.elapsed < p
    /\ sync' = [sync EXCEPT !.elapsed = @ + 1]
    /\ UNCHANGED <<n, p, async>>

\* ProcessItemsHandler, after ProcessItems has returned.
ProcessItemsHandlerRespond ==
    /\ sync.pc = "returned"
    /\ sync' = [sync EXCEPT !.pc = "answered", !.resp = Respond(@, sync.result)]
    /\ UNCHANGED <<n, p, async>>

SyncNext ==
    \/ \E body \in Bodies : ProcessItemsHandler(body)
    \/ ProcessItemsEnter
    \/ ProcessItemsCheck
    \/ ProcessItemsProcessReturn
    \/ SyncTick
    \/ ProcessItemsHandlerRespond

SyncSpec == Init /\ [][SyncNext]_vars

(***************************************************************************)
(* Properties.                                                             *)
(***************************************************************************)
\* Worker w starts a Process call in this step.
CallStarts(w) == Len(workers'[w].sent) > Len(workers[w].sent)

\* Time since any worker's latest Process call started, capped at p.
SinceAny ==
    IF \A w \in WorkerIds : workers[w].since >= p THEN p
    ELSE CHOOSE t \in 0..p :
            /\ \E w \in WorkerIds : workers[w].since = t
            /\ \A w \in WorkerIds : workers[w].since >= t

CeilDiv(a, b) == (a + b - 1) \div b

RECURSIVE Flatten(_, _)
\* The items of sub-batches 1..k of `sent`, cut from batch b, in send order.
Flatten(b, sent) ==
    IF sent = << >> THEN << >>
    ELSE Flatten(b, SubSeq(sent, 1, Len(sent) - 1))
            \o SubBatch(b, sent[Len(sent)].lo, sent[Len(sent)].hi)

\* C1: in every worker, a Process call starts at least one period after the
\* worker's previous Process call started.
C1_WorkerSpacing ==
    [][\A w \in WorkerIds : CallStarts(w) => workers[w].since >= p]_vars

\* C2: over the whole dispatcher, a Process call starts at least one period
\* after the previous Process call of any worker started.
C2_GlobalSpacing ==
    [][\A w \in WorkerIds : CallStarts(w) => SinceAny >= p]_vars

\* C3: a worker has at most one Process call in flight, so sub-batch k's call
\* has returned when sub-batch k+1's call starts, and the sub-batches of a
\* batch reach the processor in increasing position, whatever the other
\* workers do.
C3_SubBatchOrder ==
    \A w \in WorkerIds :
        LET wk == workers[w] IN
        /\ wk.inFlight <= 1
        /\ wk.inFlight = 1 <=> wk.pc = "inProcess"
        /\ \A k \in 1..(Len(wk.sent) - 1) :
              /\ wk.sent[k].hi <= wk.sent[k + 1].lo
              /\ n > 0 => wk.sent[k].lo < wk.sent[k + 1].lo

C3_Witness ==
    /\ Len(workers) = 2
    /\ \A w \in WorkerIds :
          /\ Len(workers[w].sent) >= 2
          /\ workers[w].pc \in {"inProcess", "waitTick"}

\* C4: for capacity C > 0 the sub-batches a worker sends are contiguous
\* non-empty slices of length <= C, all but the last of length exactly C,
\* and a finished worker has sent ceil(L/C) of them, which concatenated in
\* send order are the batch.
C4_Slicing ==
    n > 0 =>
    \A w \in WorkerIds :
        LET wk == workers[w]
            b  == BatchOf(w)
            L  == Len(b)
        IN /\ \A k \in 1..Len(wk.sent) :
                 /\ wk.sent[k].lo = (IF k = 1 THEN 0 ELSE wk.sent[k - 1].hi)
                 /\ wk.sent[k].lo < wk.sent[k].hi
                 /\ wk.sent[k].hi <= L
                 /\ wk.sent[k].hi - wk.sent[k].lo <= n
                 /\ (k < Len(wk.sent) \/ wk.sent[k].hi < L)
                        => wk.sent[k].hi - wk.sent[k].lo = n
           /\ Len(wk.sent) <= CeilDiv(L, n)
           /\ wk.pc = "done" =>
                 /\ Len(wk.sent) = CeilDiv(L, n)
                 /\ Flatten(b, wk.sent) = b

C4_Witness ==
    \E w \in WorkerIds :
        /\ workers[w].pc = "done"
        /\ n = 2
        /\ Len(BatchOf(w)) = 3
        /\ Len(workers[w].sent) = 2

\* C5: a failed Process call changes nothing in the worker's course: it waits
\* for its tick, moves on by one capacity and calls Process for the next
\* sub-batch, and it ends only when the loop condition fails; for capacity
\* > 0 no position of the batch is passed to Process twice.
C5_FailureDoesNotStopOrRetry ==
    \A w \in WorkerIds :
        LET wk == workers[w]
            L  == Len(BatchOf(w))
            m  == Len(wk.sent)
        IN /\ wk.lastRes = "err" =>
                 /\ wk.pc \in {"waitTick", "loop", "inProcess", "done"}
                 /\ wk.pc = "waitTick" => wk.i = wk.sent[m].lo /\ wk.ticks = m - 1
                 /\ wk.pc = "loop" => wk.i = wk.sent[m].lo + n /\ wk.ticks = m
                 /\ wk.pc = "inProcess" =>
                        /\ m >= 2
                        /\ wk.sent[m].lo = wk.sent[m - 1].lo + n
                        /\ wk.ticks = m - 1
                 /\ wk.pc = "done" =>
                        /\ ~(wk.i < L)
                        /\ n > 0 => m = CeilDiv(L, n)
           /\ n > 0 => \A j, k \in 1..m : j # k => wk.sent[j].lo # wk.sent[k].lo

C5_Witness ==
    \E w \in WorkerIds :
        /\ workers[w].lastRes = "err"
        /\ workers[w].pc = "inProcess"
        /\ n > 0

\* Workers holding batch b, and Run itself between its receive and its go statement.
NumHandlers(b) ==
    Cardinality({w \in WorkerIds : workers[w].batch = b})
        + (IF runPc = "spawn" /\ runBatch = b THEN 1 ELSE 0)

\* C6: a batch whose Process(batch) call has returned is held by exactly one
\* worker (or by Run, about to start that worker), and no other batch is held.
C6_OneWorkerPerBatch ==
    \A b \in BatchIds :
        NumHandlers(b) = (IF call[b] = "returned" THEN 1 ELSE 0)

C6_Witness ==
    /\ \A b \in BatchIds : call[b] = "returned"
    /\ Len(workers) = NumBatches
    /\ \A v, w \in WorkerIds : v # w => workers[v].batch # workers[w].batch

\* C7: once the context is cancelled, Run receives no batch from the queue.
C7_NoDequeueAfterCancel ==
    [][ctxDone => \A b \in BatchIds : call[b] = "blocked" => call'[b] = "blocked"]_vars

\* The w-th worker has ended after passing every sub-batch of its batch to Process.
Completed(w) ==
    /\ n > 0
    /\ w \in WorkerIds
    /\ workers[w].pc = "done"
    /\ Len(workers[w].sent) = CeilDiv(Len(BatchOf(w)), n)
    /\ Flatten(BatchOf(w), workers[w].sent) = BatchOf(w)

\* C8: for capacity > 0 and a ticker that ticks (period > 0), every worker
\* Run has started ends after passing all sub-batches of its batch to
\* Process, whatever happens to the context and to Run meanwhile.
C8_WorkersRunToCompletion ==
    \A w \in BatchIds :
        (n > 0 /\ p > 0 /\ w \in WorkerIds) ~> Completed(w)

\* The context is cancelled, Run has returned, and a worker is in a Process
\* call for a later sub-batch that it started after the cancellation.
C8_Witness ==
    /\ runPc = "returned"
    /\ \E w \in WorkerIds :
          /\ workers[w].pc = "inProcess"
          /\ workers[w].callCtx
          /\ Len(workers[w].sent) >= 2
          /\ workers[w].sent[Len(workers[w].sent)].hi < Len(BatchOf(w))

\* Batches Run has received.
NumDequeued == Len(workers) + (IF runPc = "spawn" THEN 1 ELSE 0)

\* C9: as many Process(batch) calls have returned as Run has received batches,
\* and a call returns only in a step in which Run, waiting in its select,
\* receives that call's batch.
C9_UnbufferedHandoff ==
    /\ [](Cardinality({b \in BatchIds : call[b] = "returned"}) = NumDequeued)
    /\ [][\A b \in BatchIds :
            (call[b] # "returned" /\ call'[b] = "returned")
                => /\ call[b] = "blocked"
                   /\ runPc = "select"
                   /\ runPc' = "spawn"
                   /\ runBatch' = b]_vars

C9_Witness ==
    /\ call[1] = "returned"
    /\ call[2] = "blocked"
    /\ runPc = "spawn"

\* C10: with capacity 0 a worker passes no zero-length sub-batch to Process
\* and makes no more Process calls than the batch has items.
C10_ZeroCapacityTerminates ==
    n = 0 =>
    \A w \in WorkerIds :
        /\ \A k \in 1..Len(workers[w].sent) : workers[w].sent[k].lo < workers[w].sent[k].hi
        /\ Len(workers[w].sent) <= Len(BatchOf(w))

\* C12: a request whose body does not decode is answered 400 with the decode
\* error as body, and no Process(batch) call is made for it.
C12_BadRequestNotDispatched ==
    \A b \in BatchIds :
        (req[b].present /\ ~req[b].ok) =>
            /\ resp[b].status = StatusBadRequest
            /\ resp[b].body = DecodeErrText
            /\ call[b] = "none"
            /\ NumHandlers(b) = 0

\* C11: a worker given an empty batch makes no Process call and does not
\* fault, whatever the capacity and the period.
C11_EmptyBatchNoProcess ==
    \A w \in WorkerIds :
        Len(BatchOf(w)) = 0 =>
            /\ workers[w].sent = << >>
            /\ workers[w].pc # "panicked"
            /\ ~crashed

\* The call returns the overload condition in this step.
BecomesBlocked == sync.result # "blocked" /\ sync'.result = "blocked"

\* What C13 says of every capacity but only holds of the pre-check: a slice
\* is sent only with elapsed < period; at a pre-check with a slice left and
\* elapsed >= period the call returns overload; it sends nothing in the step
\* in which it returns overload nor after it has returned.
PreCheck ==
    /\ Len(sync'.sent) > Len(sync.sent) => sync.elapsed < p
    /\ (sync.pc = "check" /\ sync'.pc # "check" /\ sync.i < sync.L /\ sync.elapsed >= p)
          => sync'.result = "blocked"
    /\ BecomesBlocked => sync'.sent = sync.sent
    /\ sync.pc \in {"returned", "answered"} => sync'.sent = sync.sent
    /\ (BecomesBlocked /\ sync.bs > 0) => Len(sync.sent) < CeilDiv(sync.L, sync.bs)

\* C13 as stated: the pre-check, and overload is returned only with
\* elapsed >= period.
C13_OverloadOnlyWhenElapsed ==
    [][PreCheck /\ (BecomesBlocked => sync.elapsed >= p)]_vars

\* C13 amended: the pre-check, and overload is returned only with
\* elapsed >= period or for a non-empty item list with capacity 0.
C13_OverloadPreCheck ==
    [][PreCheck /\ (BecomesBlocked => (sync.elapsed >= p \/ (n = 0 /\ sync.L > 0)))]_vars

C13_Witness ==
    /\ sync.result = "blocked"
    /\ n = 2
    /\ p > 0
    /\ sync.L = 3
    /\ Len(sync.sent) = 1

\* C14: for capacity C > 0 the slices ProcessItems sends are contiguous from
\* position 0, non-empty and of length <= C; it ends in success, overload or
\* a processor failure only; and when it returns success it has sent
\* ceil(L/C) slices, which concatenated in send order are the items.
C14_SyncSlicing ==
    n > 0 =>
        /\ \A k \in 1..Len(sync.sent) :
              /\ sync.sent[k].lo = (IF k = 1 THEN 0 ELSE sync.sent[k - 1].hi)
              /\ sync.sent[k].lo < sync.sent[k].hi
              /\ sync.sent[k].hi <= sync.L
              /\ sync.sent[k].hi - sync.sent[k].lo <= n
        /\ sync.result \in {"none", "nil", "blocked", "failed"}
        /\ sync.result = "nil" =>
              /\ Len(sync.sent) = CeilDiv(sync.L, n)
              /\ Flatten(Items(sync.L), sync.sent) = Items(sync.L)

C14_Witness ==
    /\ sync.result = "nil"
    /\ n = 2
    /\ sync.L = 3
    /\ Len(sync.sent) = 2

C16_FirstSentAtOnce ==
    \A w \in WorkerIds :
        LET wk == workers[w]
            m  == Len(wk.sent)
        IN /\ m = 0 => wk.ticks = 0
           /\ (m = 1 /\ wk.pc \in {"inProcess", "waitTick"}) => wk.ticks = 0
           /\ (m = 1 /\ wk.pc = "inProcess" /\ wk.since = 0) => wk.tickIn = p

C16_Witness ==
    \E w \in WorkerIds :
        /\ Len(BatchOf(w)) > 0
        /\ Len(workers[w].sent) = 1
        /\ workers[w].pc = "inProcess"
        /\ workers[w].since = 0

\* C17: for capacity > 0 a worker waits for a tick only while sub-batches
\* remain, and a finished worker of k sub-batches has received k-1 ticks.
C17_NoTickAfterLast ==
    n > 0 =>
    \A w \in WorkerIds :
        LET wk == workers[w]
            m  == Len(wk.sent)
        IN /\ wk.pc = "waitTick" => wk.sent[m].hi < Len(BatchOf(w))
           /\ (wk.pc = "done" /\ m >= 1) => wk.ticks = m - 1

\* C18: Run starts the worker and is back at its select whatever the workers
\* already running do, and there, while the context is not cancelled, it can
\* receive the next batch a submitter offers.
C18_RunNeverWaits ==
    /\ (Alive /\ runPc = "spawn") => ENABLED RunSpawn
    /\ (Alive /\ runPc = "select" /\ ~ctxDone /\ \E b \in BatchIds : call[b] = "blocked")
          => ENABLED (\E b \in BatchIds : RunRecv(b))

\* The first worker is between two sub-batches and the second batch has been
\* received, with its first sub-batch in Process.
C18_Witness ==
    /\ ~ctxDone
    /\ Len(workers) >= 2
    /\ workers[1].pc = "waitTick"
    /\ workers[1].sent[Len(workers[1].sent)].hi < Len(BatchOf(1))
    /\ workers[2].pc = "inProcess"
    /\ Len(workers[2].sent) = 1

\* C19: while Run has not started or has returned, no Process(batch) call
\* returns; Run, once returned, stays returned; a blocked call's batch is held
\* by no worker and, its body having decoded, its request has no answer.
C19_NoRejectionPath ==
    /\ [](\A b \in BatchIds :
            call[b] = "blocked" =>
                /\ NumHandlers(b) = 0
                /\ req[b].ok => resp[b] = NoResponse)
    /\ [][(runPc = "init" \/ runPc = "returned") =>
             ((\A b \in BatchIds : call'[b] = "returned" => call[b] = "returned")
                 /\ (runPc = "returned" => runPc' = "returned"))]_vars

C19_Witness ==
    /\ runPc = "returned"
    /\ \E b \in BatchIds :
          /\ call[b] = "blocked"
          /\ req[b].ok
          /\ Len(batch[b]) > 0
          /\ resp[b] = NoResponse

\* C20: no worker faults at the creation of its ticker, whatever the limits.
C20_NoTickerFault ==
    \A w \in WorkerIds : workers[w].pc # "panicked"

====
